---- MODULE Spec2Model ----
(***************************************************************************)
(* GoogleAIModule (src/GoogleAIModule.py): the request-processing          *)
(* lifecycle of one module instance -- enable state, cooldown, conversation*)
(* files, streamed reply with cooperative cancellation -- as a state       *)
(* machine.  One operation (initialize, process_request,                   *)
(* clear_conversation_for_user) runs at a time; process_request is split   *)
(* at every point where it reads the clock or the shared cancel flag, so   *)
(* that the external context (ExtSetCancel, ExtClearCancel, Tick)          *)
(* interleaves with it.                                                    *)
(***************************************************************************)
EXTENDS Integers, Sequences, FiniteSets, TLC

\* ---------------------------------------------------------------- bounds
MaxChunks == 2
MaxTurns == 4
MaxTime == 4

\* config[config_key]["cooldown_seconds"], in clock ticks
CooldownSeconds == 1

Users == {1}
Ids == {1, 2}
\* request_response.user.get("lang", 0): the language each user record carries
UserLang == [u \in Users |-> 1]
\* Python None for a conversation id
None == 0
\* request texts the dispatcher hands in
Texts == {"Hello"}

VARIABLES
    enabled,            \* self._enabled
    model,              \* self._model is configured
    vision_model,       \* self._vision_model is configured
    config_enabled,     \* config["modules"][config_key]
    cancel_requested,   \* self.cancel_requested.value
    processing_flag,    \* self.processing_flag.value
    last_request_time,  \* self._last_request_time.value
    now,                \* time.time()
    files,              \* conversations_dir: id -> [st, data]
    users,              \* user records: user -> conversation id field
    saved,              \* what users_handler.save_user last persisted
    pc,                 \* position inside the running operation
    req,                \* the RequestResponseContainer of the running/last request
    conversation_id,    \* local of process_request
    conversation,       \* local of process_request
    response,           \* local: the stream returned by generate_content
    idx,                \* chunks fetched from the stream so far
    broke,              \* the chunk loop was left by `break`
    wake_at,            \* when the running time.sleep returns
    pending,            \* exception in flight through except/finally
    last_op,            \* operation that ran last
    result,             \* how it ended: "none", "returned", "raised"
    ops,                \* effects performed by the running/last operation
    relays,             \* message updates relayed by the running/last request, each
                        \* with the chunk it follows and processing_flag at that instant
    pre,                \* files/users/saved/enabled when the operation began
    cancel_set_at       \* where the stream stood when cancel_requested was last set:
                        \* n chunks fetched, the n-th one not yet checked (or dropped)

vars == <<enabled, model, vision_model, config_enabled, cancel_requested,
          processing_flag, last_request_time, now, files, users, saved, pc, req,
          conversation_id, conversation, response, idx, broke, wake_at, pending,
          last_op, result, ops, relays, pre, cancel_set_at>>

modvars == <<enabled, model, vision_model, config_enabled>>
flagvars == <<cancel_requested, processing_flag>>
storevars == <<files, users, saved>>
localvars == <<conversation_id, conversation, response, idx, broke, wake_at, pending>>

\* ------------------------------------------------------------ data helpers
Absent == [st |-> "absent", data |-> << >>]
Corrupt == [st |-> "corrupt", data |-> << >>]
FileOf(t) == [st |-> "ok", data |-> t]

\* Content.to_json(Content(role=..., parts=...)): the serialized turn
ToJson(role, parts) == <<role, parts>>

\* a chunk is [has_text, text]; the k-th chunk of a stream carries token "ck"
ChunkText(k) == <<"c" \o ToString(k)>>
MkStream(bits) == [k \in 1..Len(bits) |-> [has_text |-> bits[k], text |-> ChunkText(k)]]
RECURSIVE SeqsUpTo(_)
SeqsUpTo(n) ==
    IF n = 0 THEN {<< >>}
    ELSE LET S == SeqsUpTo(n - 1)
         IN S \cup {Append(s, b) : s \in {t \in S : Len(t) = n - 1}, b \in BOOLEAN}
Streams == {MkStream(bits) : bits \in SeqsUpTo(MaxChunks)}

\* text of the first n chunks, in order, text-less chunks contributing nothing
RECURSIVE ConcatText(_, _)
ConcatText(chunks, n) ==
    IF n = 0 THEN << >>
    ELSE ConcatText(chunks, n - 1)
         \o (IF chunks[n].has_text THEN chunks[n].text ELSE << >>)

\* response.parts after the stream was consumed: the aggregated reply
AggregatedParts(chunks) == ConcatText(chunks, Len(chunks))

\* self.messages[lang]["response_error"].format("Google AI module not initialized!")
ResponseError(lang) ==
    <<"response_error[" \o ToString(lang) \o "]", "Google AI module not initialized!">>

NoRequest == [user |-> 1, text |-> "Hello", image_url |-> FALSE,
              response |-> << >>, error |-> FALSE]
NoStream == << >>
NoOp == [name |-> "none", user |-> None]
NoPre == [files |-> [i \in Ids |-> Absent], users |-> [u \in Users |-> None],
          saved |-> [u \in Users |-> None], enabled |-> FALSE, prev |-> NoOp]
NoCancel == [n |-> -1, unchecked |-> FALSE]

\* what an operation finds when it begins; `prev`, the operation before it, is
\* kept for clear_conversation_for_user alone
Snapshot(op) == [files |-> files, users |-> users, saved |-> saved,
                 enabled |-> enabled,
                 prev |-> IF op = "clear_conversation" THEN last_op ELSE NoOp]

\* ------------------------------------------------------------------- Init
Init ==
    /\ enabled = FALSE
    /\ model = FALSE
    /\ vision_model = FALSE
    /\ config_enabled \in BOOLEAN
    /\ cancel_requested = FALSE
    /\ processing_flag = FALSE
    /\ last_request_time = 0
    /\ now = CooldownSeconds + 1
    /\ files = [i \in Ids |-> Absent]
    /\ users = [u \in Users |-> None]
    /\ saved = [u \in Users |-> None]
    /\ pc = "idle"
    /\ req = NoRequest
    /\ conversation_id = None
    /\ conversation = << >>
    /\ response = NoStream
    /\ idx = 0
    /\ broke = FALSE
    /\ wake_at = 0
    /\ pending = FALSE
    /\ last_op = NoOp
    /\ result = "none"
    /\ ops = {}
    /\ relays = << >>
    /\ pre = NoPre
    /\ cancel_set_at = NoCancel

\* ------------------------------------------------- Conversation Store (leaf)
\* _load_conversation: the transcript, or None (absent id, absent file, bad json)
LoadConversation(fs, id) ==
    IF id = None THEN [none |-> TRUE, data |-> << >>]
    ELSE IF fs[id].st = "ok" THEN [none |-> FALSE, data |-> fs[id].data]
    ELSE [none |-> TRUE, data |-> << >>]

\* `x or []`
OrEmpty(r) == IF r.none \/ r.data = << >> THEN << >> ELSE r.data

\* outcomes of the file system under open(..., "w") + json.dump
SaveOutcomes == {"ok", "open_error", "write_error"}
\* _save_conversation: [ok, files]; a failed write leaves a truncated file
SaveConversation(fs, id, conv, outcome) ==
    IF id = None THEN [ok |-> FALSE, files |-> fs]
    ELSE IF outcome = "ok" THEN [ok |-> TRUE, files |-> [fs EXCEPT ![id] = FileOf(conv)]]
    ELSE IF outcome = "write_error" THEN [ok |-> FALSE, files |-> [fs EXCEPT ![id] = Corrupt]]
    ELSE [ok |-> FALSE, files |-> fs]

\* mutant: the file is never removed
DeleteConversationKeep(fs, id, outcome) == [ok |-> TRUE, files |-> fs, touched |-> FALSE]

\* outcomes of os.remove
DeleteOutcomes == {"ok", "remove_error"}
\* _delete_conversation: [ok, files, touched]
DeleteConversation(fs, id, outcome) ==
    IF id = None THEN [ok |-> FALSE, files |-> fs, touched |-> FALSE]
    ELSE IF fs[id].st # "absent"
    THEN IF outcome = "ok"
         THEN [ok |-> TRUE, files |-> [fs EXCEPT ![id] = Absent], touched |-> TRUE]
         ELSE [ok |-> FALSE, files |-> fs, touched |-> TRUE]
    ELSE [ok |-> TRUE, files |-> fs, touched |-> FALSE]

\* str(uuid.uuid4()): an identifier no file and no user record carries
FreshIds == {i \in Ids : files[i].st = "absent" /\ \A u \in Users : users[u] # i}

\* ------------------------------------------------------------ Rate Limiter
\* mutant: the limiter never waits
CooldownActiveNever(t, last) == FALSE

\* time.time() - last <= cooldown_seconds
CooldownActive(t, last) == t - last <= CooldownSeconds
\* the argument of time.sleep
SleepLength(t, last) == last + CooldownSeconds - t

\* ------------------------------------------------------- operation framing
Running == pc \notin {"idle", "done"}

Begin(op, u) ==
    /\ pc = "idle"
    /\ last_op' = [name |-> op, user |-> u]
    /\ relays' = << >>
    /\ pre' = Snapshot(op)

\* ---------------------------------------------------------------- initialize
InitOutcomes == {"ok", "model_error", "vision_error", "client_error"}

\* mutant: the except branch keeps the value line 94 read from the configuration
EnabledAfterInitErrorKeep(cfg) == cfg

\* `self._enabled = False` of initialize's except branch
EnabledAfterInitError(cfg) == FALSE

Initialize(outcome) ==
    /\ Begin("initialize", None)
    /\ ops' = IF ~config_enabled THEN {"module_disabled"}
              ELSE IF outcome = "ok" THEN {} ELSE {outcome}
    /\ processing_flag' = FALSE
    /\ cancel_requested' = FALSE
    /\ cancel_set_at' = NoCancel
    /\ IF ~config_enabled
       THEN /\ enabled' = EnabledAfterInitError(config_enabled)
            /\ model' = FALSE
            /\ UNCHANGED vision_model
            /\ result' = "raised"
       ELSE IF outcome = "ok"
       THEN /\ enabled' = TRUE
            /\ model' = TRUE
            /\ vision_model' = TRUE
            /\ result' = "returned"
       ELSE /\ enabled' = EnabledAfterInitError(config_enabled)
            /\ model' = (outcome # "model_error")
            /\ vision_model' = IF outcome = "client_error" THEN TRUE ELSE vision_model
            /\ result' = "raised"
    /\ pc' = "done"
    /\ UNCHANGED <<config_enabled, last_request_time, now, storevars, req, localvars>>

\* ----------------------------------------------------------- process_request
\* mutant: the rejection forgets the error flag
NotInitializedNoError(r, lang) == [r EXCEPT !.response = ResponseError(lang)]

\* the request after the "not initialized" rejection
NotInitialized(r, lang) == [r EXCEPT !.response = ResponseError(lang), !.error = TRUE]

\* turns held by the files of `ids`
RECURSIVE TurnsStored(_, _)
TurnsStored(fs, ids) ==
    IF ids = {} THEN 0
    ELSE LET i == CHOOSE j \in ids : TRUE
         IN Len(fs[i].data) + TurnsStored(fs, ids \ {i})

\* the conversations directory holds at most MaxTurns turns: a text request
\* that would outgrow it, or that needs a fresh identifier when none is left,
\* is not started
Startable(u, img) ==
    img \/ ~enabled
        \/ /\ TurnsStored(files, Ids) + 2 <= MaxTurns
           /\ users[u] = None => FreshIds # {}

PR_Start(u, text, img) ==
    /\ Begin("process_request", u)
    /\ ops' = {}
    /\ Startable(u, img)
    /\ conversation_id' = users[u]
    /\ conversation' = << >>
    /\ response' = NoStream
    /\ idx' = 0
    /\ broke' = FALSE
    /\ wake_at' = 0
    /\ pending' = FALSE
    /\ cancel_set_at' = IF cancel_requested THEN [n |-> 0, unchecked |-> FALSE] ELSE NoCancel
    /\ LET r == [user |-> u, text |-> text, image_url |-> img,
                 response |-> << >>, error |-> FALSE]
       IN IF ~enabled
          THEN /\ req' = NotInitialized(r, UserLang[u])
               /\ processing_flag' = FALSE
               /\ pc' = "done"
               /\ result' = "returned"
          ELSE /\ req' = r
               /\ processing_flag' = TRUE
               /\ pc' = "cooldown"
               /\ result' = "none"
    /\ UNCHANGED <<modvars, cancel_requested, last_request_time, now, storevars>>

PR_Cooldown ==
    /\ pc = "cooldown"
    /\ pc' = IF CooldownActive(now, last_request_time) THEN "sleep" ELSE "stamp"
    /\ UNCHANGED <<modvars, flagvars, last_request_time, now, storevars, req, localvars,
                   last_op, result, ops, relays, pre, cancel_set_at>>

\* time.sleep(d): ValueError when d < 0
PR_Sleep ==
    /\ pc = "sleep"
    /\ LET d == SleepLength(now, last_request_time)
       IN IF d < 0
          THEN /\ pc' = "except"
               /\ UNCHANGED wake_at
          ELSE /\ pc' = "sleeping"
               /\ wake_at' = now + d
    /\ UNCHANGED <<modvars, flagvars, last_request_time, now, storevars, req,
                   conversation_id, conversation, response, idx, broke, pending,
                   last_op, result, ops, relays, pre, cancel_set_at>>

PR_Wake ==
    /\ pc = "sleeping"
    /\ now >= wake_at
    /\ wake_at' = 0
    /\ pc' = "stamp"
    /\ UNCHANGED <<modvars, flagvars, last_request_time, now, storevars, req,
                   conversation_id, conversation, response, idx, broke, pending,
                   last_op, result, ops, relays, pre, cancel_set_at>>

PR_Stamp ==
    /\ pc = "stamp"
    /\ last_request_time' = now
    /\ ops' = ops \cup {"stamp"}
    /\ pc' = IF req.image_url THEN "download" ELSE "load"
    /\ UNCHANGED <<modvars, flagvars, now, storevars, req, localvars,
                   last_op, result, relays, pre, cancel_set_at>>

\* requests.get(image_url): returns or raises
PR_Download(ok) ==
    /\ pc = "download"
    /\ ops' = ops \cup {"download"}
    /\ pc' = IF ok THEN "vision_call" ELSE "except"
    /\ UNCHANGED <<modvars, flagvars, last_request_time, now, storevars, req, localvars,
                   last_op, result, relays, pre, cancel_set_at>>

\* self._vision_model.generate_content([...], stream=True): a stream, or raises
PR_VisionCall(s, ok) ==
    /\ pc = "vision_call"
    /\ ops' = ops \cup {"model_call"}
    /\ IF ok
       THEN /\ response' = s
            /\ pc' = "next"
       ELSE /\ UNCHANGED response
            /\ pc' = "except"
    /\ UNCHANGED <<modvars, flagvars, last_request_time, now, storevars, req,
                   conversation_id, conversation, idx, broke, wake_at, pending,
                   last_op, result, relays, pre, cancel_set_at>>

\* mutant: the loaded transcript is dropped
WithUserTurnFresh(fs, id, text) == <<ToJson("user", <<text>>)>>

\* the transcript the text branch hands to the model: loaded turns + user turn
WithUserTurn(fs, id, text) ==
    Append(OrEmpty(LoadConversation(fs, id)), ToJson("user", <<text>>))

\* `newid` is the identifier the request goes on with: the stored one, or a
\* new uuid4 when there is none
PR_Load(newid) ==
    /\ pc = "load"
    /\ IF conversation_id = None THEN newid \in FreshIds ELSE newid = conversation_id
    /\ conversation' = WithUserTurn(files, conversation_id, req.text)
    /\ conversation_id' = newid
    /\ ops' = ops \cup {"load_conversation"}
                  \cup (IF conversation_id # None THEN {"file_read"} ELSE {})
    /\ pc' = "model_call"
    /\ UNCHANGED <<modvars, flagvars, last_request_time, now, storevars, req,
                   response, idx, broke, wake_at, pending,
                   last_op, result, relays, pre, cancel_set_at>>

\* self._model.generate_content([Content.from_json(c) ...], stream=True)
PR_ModelCall(s, ok) ==
    /\ pc = "model_call"
    /\ ops' = ops \cup {"model_call"}
    /\ IF ok
       THEN /\ response' = s
            /\ pc' = "next"
       ELSE /\ UNCHANGED response
            /\ pc' = "except"
    /\ UNCHANGED <<modvars, flagvars, last_request_time, now, storevars, req,
                   conversation_id, conversation, idx, broke, wake_at, pending,
                   last_op, result, relays, pre, cancel_set_at>>

\* `for chunk in response`: the next chunk, the end of the stream, or an error
PR_Next(ok) ==
    /\ pc = "next"
    /\ IF ~ok THEN pc' = "except" /\ UNCHANGED idx
       ELSE IF idx = Len(response) THEN pc' = "post" /\ UNCHANGED idx
       ELSE pc' = "check" /\ idx' = idx + 1
    /\ ops' = ops \cup (IF pc' = "post" THEN {"loop_ended"} ELSE {})
    /\ UNCHANGED <<modvars, flagvars, last_request_time, now, storevars, req,
                   conversation_id, conversation, response, broke, wake_at, pending,
                   last_op, result, relays, pre, cancel_set_at>>

\* mutant: the loop never polls the flag
BreakLoopNever(cancel) == FALSE

\* `if self.cancel_requested.value: break`
BreakLoop(cancel) == cancel

PR_Check ==
    /\ pc = "check"
    /\ pc' = IF BreakLoop(cancel_requested) THEN "post" ELSE "body"
    /\ broke' = BreakLoop(cancel_requested)
    /\ ops' = ops \cup (IF cancel_requested THEN {"cancel_polled"} ELSE {})
                  \cup (IF pc' = "post" THEN {"loop_ended"} ELSE {})
    /\ UNCHANGED <<modvars, flagvars, last_request_time, now, storevars, req,
                   conversation_id, conversation, response, idx, wake_at, pending,
                   last_op, result, relays, pre, cancel_set_at>>

\* `len(chunk.parts) < 1 or "text" not in chunk.parts[0]`
SkipChunk(chunk) == ~chunk.has_text
\* `request_response.response += chunk.parts[0].text`
Accumulate(text, chunk) == text \o chunk.text

PR_Body ==
    /\ pc = "body"
    /\ IF SkipChunk(response[idx])
       THEN UNCHANGED <<req, relays>>
       ELSE /\ req' = [req EXCEPT !.response = Accumulate(req.response, response[idx])]
            /\ relays' = Append(relays, [end |-> FALSE, text |-> req'.response,
                                         chunk |-> idx, processing |-> processing_flag])
    /\ pc' = "next"
    /\ UNCHANGED <<modvars, flagvars, last_request_time, now, storevars, localvars,
                   last_op, result, ops, pre, cancel_set_at>>

\* mutant: the post-loop branch ignores cancellation
AfterLoopIgnoreCancel(cancel, img) == IF ~img THEN "persist" ELSE "nothing"

\* mutant: the post-loop branch persists image requests too
AfterLoopPersistImage(cancel, img) == IF cancel THEN "cancelled" ELSE "persist"

\* the branch taken after the loop: "cancelled", "persist" or "nothing"
AfterLoop(cancel, img) ==
    IF cancel THEN "cancelled" ELSE IF ~img THEN "persist" ELSE "nothing"

\* mutant: the identifier survives a failed save
IdAfterSaveKeep(ok, id) == id

\* the identifier written back to the user record
IdAfterSave(ok, id) == IF ~ok THEN None ELSE id

\* response.parts: the aggregated parts of the chunks the iterator has yielded.
\* On a stream the loop left by `break` the client library either raises
\* (iteration incomplete) or hands out what it has aggregated so far.
PartsOutcomes == {"parts", "incomplete_error"}
ResponseParts(chunks, fetched) == ConcatText(chunks, fetched)

PR_Post(outcome, parts) ==
    /\ pc = "post"
    /\ IF AfterLoop(cancel_requested, req.image_url) = "persist"
       THEN IF parts = "incomplete_error"
            THEN /\ broke
                 /\ outcome = "ok"
                 /\ pc' = "except"
                 /\ UNCHANGED <<storevars, conversation_id, conversation, ops>>
            ELSE LET conv == Append(conversation,
                                    ToJson("model", ResponseParts(response, idx)))
                     sv == SaveConversation(files, conversation_id, conv, outcome)
                     id == IdAfterSave(sv.ok, conversation_id)
                 IN /\ conversation' = conv
                    /\ files' = sv.files
                    /\ conversation_id' = id
                    /\ users' = [users EXCEPT ![req.user] = id]
                    /\ saved' = [saved EXCEPT ![req.user] = id]
                    /\ ops' = ops \cup {"save_conversation", "save_user"}
                                  \cup (IF cancel_requested THEN {"cancel_seen"} ELSE {})
                                  \cup (IF sv.files # files THEN {"file_write"} ELSE {})
                                  \cup (IF sv.ok THEN {"save_ok"} ELSE {"save_failed"})
                                  \cup (IF processing_flag THEN {"persist_busy"} ELSE {})
                    /\ pc' = "finally"
       ELSE /\ outcome = "ok"
            /\ parts = "parts"
            /\ ops' = ops \cup (IF cancel_requested THEN {"cancel_seen"} ELSE {})
            /\ pc' = "finally"
            /\ UNCHANGED <<storevars, conversation_id, conversation>>
    /\ UNCHANGED <<modvars, flagvars, last_request_time, now, req,
                   response, idx, broke, wake_at, pending,
                   last_op, result, relays, pre, cancel_set_at>>

\* mutant: the except branch leaves the module enabled
EnabledAfterErrorKeep == enabled

\* `self._enabled = False` of the except branch
EnabledAfterError == FALSE

\* `except Exception as e: self._enabled = False; raise e`
PR_Except ==
    /\ pc = "except"
    /\ enabled' = EnabledAfterError
    /\ pending' = TRUE
    /\ pc' = "finally"
    /\ UNCHANGED <<model, vision_model, config_enabled, flagvars, last_request_time, now,
                   storevars, req, conversation_id, conversation, response, idx, broke,
                   wake_at, last_op, result, ops, relays, pre, cancel_set_at>>

\* mutant: no cleanup, the flag keeps its value
FinallyFlagStale == processing_flag

\* the value `finally` leaves in processing_flag
FinallyFlag == FALSE

PR_Finally ==
    /\ pc = "finally"
    /\ processing_flag' = FinallyFlag
    /\ IF pending
       THEN pc' = "done" /\ result' = "raised"
       ELSE pc' = "final_send" /\ UNCHANGED result
    /\ UNCHANGED <<modvars, cancel_requested, last_request_time, now, storevars, req,
                   localvars, last_op, ops, relays, pre, cancel_set_at>>

\* send_message_async(..., end=True)
PR_FinalSend ==
    /\ pc = "final_send"
    /\ relays' = Append(relays, [end |-> TRUE, text |-> req.response,
                                 chunk |-> 0, processing |-> processing_flag])
    /\ pc' = "done"
    /\ result' = "returned"
    /\ UNCHANGED <<modvars, flagvars, last_request_time, now, storevars, req,
                   localvars, last_op, ops, pre, cancel_set_at>>

\* ------------------------------------------------ clear_conversation_for_user
\* mutant: no early return
NothingToClearNever(id) == FALSE

\* `if conversation_id is None: return`
NothingToClear(id) == id = None

ClearConversation(u, outcome) ==
    /\ Begin("clear_conversation", u)
    /\ IF NothingToClear(users[u])
       THEN /\ outcome = "ok"
            /\ ops' = {}
            /\ UNCHANGED storevars
       ELSE LET del == DeleteConversation(files, users[u], outcome)
            IN /\ files' = del.files
               /\ users' = [users EXCEPT ![u] = None]
               /\ saved' = [saved EXCEPT ![u] = None]
               /\ ops' = {"delete_conversation", "save_user"}
                         \cup (IF del.touched THEN {"file_remove"} ELSE {})
                         \cup (IF ~del.ok THEN {"remove_failed"} ELSE {})
    /\ req' = [req EXCEPT !.user = u]
    /\ result' = "returned"
    /\ pc' = "done"
    /\ UNCHANGED <<modvars, flagvars, last_request_time, now, localvars, cancel_set_at>>

\* ------------------------------------------------------- external context
\* The flag is read by the chunk loop and the post-loop check alone (and reset
\* by initialize): a write that falls before the stream exists or after the
\* post-loop check is taken before the call, at the first fetch, or after it.
CancelRead == {"idle", "next", "check", "body", "post"}

\* the dispatcher sets cancel_requested
ExtSetCancel ==
    /\ pc \in CancelRead
    /\ ~cancel_requested
    /\ cancel_requested' = TRUE
    /\ cancel_set_at' = IF Running
                        THEN [n |-> idx, unchecked |-> (pc = "check" \/ broke)]
                        ELSE NoCancel
    /\ UNCHANGED <<modvars, processing_flag, last_request_time, now, storevars, pc, req,
                   localvars, last_op, result, ops, relays, pre>>

\* ... and clears it again (the dispatcher, or an initialize run in another
\* execution context on the shared value, line 79)
ExtClearCancel ==
    /\ pc \in CancelRead
    /\ cancel_requested
    /\ cancel_requested' = FALSE
    /\ cancel_set_at' = NoCancel
    /\ UNCHANGED <<modvars, processing_flag, last_request_time, now, storevars, pc, req,
                   localvars, last_op, result, ops, relays, pre>>

\* the operation has returned (or raised) to the dispatcher, which takes the
\* request object back; the locals of the call are gone
Return ==
    /\ pc = "done"
    /\ pc' = "idle"
    /\ req' = NoRequest
    /\ conversation_id' = None
    /\ conversation' = << >>
    /\ response' = NoStream
    /\ idx' = 0
    /\ broke' = FALSE
    /\ wake_at' = 0
    /\ pending' = FALSE
    /\ result' = "none"
    /\ ops' = {}
    /\ relays' = << >>
    /\ pre' = NoPre
    /\ cancel_set_at' = NoCancel
    /\ UNCHANGED <<modvars, flagvars, last_request_time, now, storevars, last_op>>

\* the clock advances.  Only the rate limiter reads it, so time that passes
\* between the timestamp update and the end of the call is taken after the call.
ClockRead == {"idle", "cooldown", "sleep", "sleeping", "stamp"}
Tick ==
    /\ pc \in ClockRead
    /\ now < MaxTime
    /\ now' = now + 1
    /\ UNCHANGED <<modvars, flagvars, last_request_time, storevars, pc, req,
                   localvars, last_op, result, ops, relays, pre, cancel_set_at>>

\* The conversations directory is an ordinary directory: a file a user record
\* refers to may be removed or damaged from outside between two calls, the
\* cases _load_conversation and _delete_conversation provide for.
DamageKinds == {"removed", "undeserializable"}
ExtDamageFile(i, kind) ==
    /\ pc = "idle"
    /\ \E u \in Users : users[u] = i
    /\ files[i].st = "ok"
    /\ files' = [files EXCEPT ![i] = IF kind = "removed" THEN Absent ELSE Corrupt]
    /\ UNCHANGED <<modvars, flagvars, last_request_time, now, users, saved, pc, req,
                   localvars, last_op, result, ops, relays, pre, cancel_set_at>>

\* ------------------------------------------------------------- specification
Next ==
    \/ \E o \in InitOutcomes : Initialize(o)
    \/ \E u \in Users, t \in Texts, i \in BOOLEAN : PR_Start(u, t, i)
    \/ PR_Cooldown
    \/ PR_Sleep
    \/ PR_Wake
    \/ PR_Stamp
    \/ \E ok \in BOOLEAN : PR_Download(ok)
    \/ \E s \in Streams, ok \in BOOLEAN : PR_VisionCall(s, ok)
    \/ \E i \in Ids : PR_Load(i)
    \/ \E s \in Streams, ok \in BOOLEAN : PR_ModelCall(s, ok)
    \/ \E ok \in BOOLEAN : PR_Next(ok)
    \/ PR_Check
    \/ PR_Body
    \/ \E o \in SaveOutcomes, p \in PartsOutcomes : PR_Post(o, p)
    \/ PR_Except
    \/ PR_Finally
    \/ PR_FinalSend
    \/ \E u \in Users, o \in DeleteOutcomes : ClearConversation(u, o)
    \/ Return
    \/ ExtSetCancel
    \/ ExtClearCancel
    \/ Tick

Spec == Init /\ [][Next]_vars

\* the module in a directory whose files may be removed or damaged from outside
NextEnv ==
    \/ Next
    \/ \E i \in Ids, k \in DamageKinds : ExtDamageFile(i, k)

SpecEnv == Init /\ [][NextEnv]_vars

\* ===================================================================== claims
ProcessRequestDone == pc = "done" /\ last_op.name = "process_request"
ClearDone == pc = "done" /\ last_op.name = "clear_conversation"
\* the call passed the enabled check
Accepted == ~req.error
StoreUntouched == files = pre.files /\ users = pre.users /\ saved = pre.saved
StoreOps == {"load_conversation", "file_read", "file_write", "save_conversation",
             "save_user", "file_remove", "delete_conversation"}

\* C1: a process_request call made while the module is not enabled returns
\* without raising, with the localized error as response text, the error flag
\* set and processing false, and performs no model call, no timestamp update, no
\* conversation-file operation, no user-record save and no message relay.
C1_DisabledRejected ==
    [][(pc = "idle" /\ ~enabled /\ pc' # "idle" /\ last_op'.name = "process_request")
        => /\ pc' = "done"
           /\ result' = "returned"
           /\ req'.response = ResponseError(UserLang[req'.user])
           /\ req'.error
           /\ ~processing_flag'
           /\ ops' = {}
           /\ relays' = << >>
           /\ last_request_time' = last_request_time
           /\ files' = files /\ users' = users /\ saved' = saved
           /\ enabled' = enabled]_vars

C1_Witness ==
    /\ ProcessRequestDone
    /\ ~enabled /\ result = "returned"
    /\ req.error
    /\ req.response = ResponseError(UserLang[req.user])
    /\ pre.users[req.user] # None

\* C2: processing is set true when an enabled request starts and is false
\* whenever no process_request call is executing, on every exit path; when an
\* exception has propagated out of process_request the flag is already cleared.
C2_ProcessingCleared ==
    /\ [](~Running => ~processing_flag)
    /\ [](result = "raised" => ~processing_flag)
    /\ [][(pc = "idle" /\ pc' = "cooldown") => processing_flag']_vars

C2_Witness ==
    /\ ProcessRequestDone
    /\ result = "raised"
    /\ "model_call" \in ops
    /\ ~processing_flag

\* C3 (as stated): if cancel_requested is set after N chunks have been consumed,
\* the response text at the end of the request is the concatenation of the text
\* of the first N chunks.
C3_Original ==
    (ProcessRequestDone /\ Accepted /\ cancel_set_at.n >= 0)
        => req.response = ConcatText(response, cancel_set_at.n)

\* C3 (amended): if cancel_requested is set when N chunks have been fetched and
\* stays set until the request ends, the response text at the end is the
\* concatenation of the text of the first N chunks -- or of the first N-1 when
\* the N-th chunk had been fetched but had not passed its per-chunk check (the
\* flag was set between fetch and check, or the loop had already been left on
\* that chunk); text-less chunks contribute nothing and no later chunk is used.
C3_CancelKeepsPrefix ==
    (ProcessRequestDone /\ Accepted /\ cancel_set_at.n >= 0)
        => /\ cancel_set_at.unchecked => cancel_set_at.n >= 1
           /\ req.response =
                ConcatText(response, IF cancel_set_at.unchecked
                                     THEN cancel_set_at.n - 1 ELSE cancel_set_at.n)

C3_Witness ==
    /\ ProcessRequestDone /\ Accepted
    /\ cancel_set_at = [n |-> 1, unchecked |-> FALSE]
    /\ Len(response) = 2
    /\ response[2].has_text
    /\ req.response = <<"c1">>

\* C4: a text request that ends cancelled (the post-loop check read
\* cancel_requested true) creates or overwrites no conversation file, leaves the
\* user record and its session identifier as before (a newly generated
\* identifier is not stored), does not call save_user, does not set the error
\* flag, leaves the module enabled and completes normally.
C4_CancelledPersistsNothing ==
    (last_op.name = "process_request" /\ ~req.image_url /\ "cancel_seen" \in ops)
        => /\ StoreUntouched
           /\ ops \cap {"file_write", "save_conversation", "save_user"} = {}
           /\ ~req.error
           /\ enabled
           /\ ~pending
           /\ pc = "done" => result = "returned"

C4_Witness ==
    /\ ProcessRequestDone
    /\ ~req.image_url /\ "cancel_seen" \in ops
    /\ result = "returned"
    /\ pre.users[req.user] = None /\ conversation_id # None
    /\ users[req.user] = None

\* C5: between two consecutive updates of the last-request timestamp at least
\* cooldown_seconds pass, whenever the second request arrives.
C5_CooldownBetweenStamps ==
    [][(pc = "stamp" /\ pc' # "stamp")
        => last_request_time' - last_request_time >= CooldownSeconds]_vars

\* the second request arrived inside the cooldown, slept, and is about to stamp
\* exactly at the boundary
C5_Witness ==
    /\ pc = "stamp"
    /\ last_request_time > 0
    /\ now = last_request_time + CooldownSeconds

\* C6: a request carrying an image reference never loads, creates, overwrites
\* or deletes a conversation file and never changes or saves the user record,
\* whatever identifier the user has stored and however the request ends.
C6_ImageStateless ==
    (last_op.name = "process_request" /\ req.image_url /\ pc # "idle")
        => /\ StoreUntouched
           /\ ops \cap StoreOps = {}
           /\ conversation = << >>

C6_Witness ==
    /\ ProcessRequestDone
    /\ req.image_url /\ result = "returned"
    /\ "cancel_seen" \notin ops
    /\ req.response # << >>
    /\ pre.users[req.user] # None
    /\ pre.files[pre.users[req.user]].st = "ok"

\* the two turns a successful text request adds
NewTurns == <<ToJson("user", <<req.text>>), ToJson("model", AggregatedParts(response))>>
\* a text request that ran to the end: not cancelled, nothing raised, saved
TextCompleted ==
    /\ ProcessRequestDone /\ Accepted
    /\ ~req.image_url
    /\ result = "returned"
    /\ ~broke /\ "cancel_seen" \notin ops
    /\ "save_ok" \in ops

\* C7: a text request that completes without cancellation and without failure:
\* with no session identifier, a new identifier is generated, its file holds
\* exactly [user turn, model turn] and the user record carries it; with an
\* identifier whose transcript T loads, the identifier is kept and its file
\* holds T, then the new user turn, then the new model turn.
C7_TranscriptGrowsByTwo ==
    TextCompleted =>
        LET u == req.user
            old == pre.users[u]
            id == users[u]
        IN /\ id # None
           /\ saved[u] = id
           /\ req.response = AggregatedParts(response)
           /\ \A i \in Ids \ {id} : files[i] = pre.files[i]
           /\ old = None =>
                /\ pre.files[id].st = "absent"
                /\ files[id] = FileOf(NewTurns)
           /\ (old # None /\ pre.files[old].st = "ok") =>
                /\ id = old
                /\ files[id] = FileOf(pre.files[old].data \o NewTurns)

\* the second of two successful requests: four entries
C7_Witness ==
    /\ TextCompleted
    /\ pre.users[req.user] # None
    /\ Len(pre.files[pre.users[req.user]].data) = 2
    /\ Len(files[users[req.user]].data) = 4

\* C8: when saving the transcript fails at the end of an otherwise successful,
\* non-cancelled text request, the identifier written to the user record is
\* null, save_user is called, the request completes without raising and without
\* the error flag, and the module stays enabled.
C8_SaveFailureNullsId ==
    "save_failed" \in ops
        => /\ users[req.user] = None
           /\ saved[req.user] = None
           /\ "save_user" \in ops
           /\ ~req.error
           /\ enabled
           /\ ~pending
           /\ pc = "done" => result = "returned"

C8_Witness ==
    /\ ProcessRequestDone
    /\ "save_failed" \in ops
    /\ result = "returned"
    /\ pre.users[req.user] # None
    /\ pre.files[pre.users[req.user]].st = "ok"

C10_ClearWithoutIdNoOp ==
    [][(/\ pc = "idle" /\ pc' # "idle"
        /\ last_op'.name = "clear_conversation"
        /\ users[last_op'.user] = None)
        => /\ pc' = "done"
           /\ result' = "returned"
           /\ ops' = {}
           /\ files' = files /\ users' = users /\ saved' = saved
           /\ enabled' = enabled /\ model' = model /\ vision_model' = vision_model
           /\ cancel_requested' = cancel_requested
           /\ processing_flag' = processing_flag
           /\ last_request_time' = last_request_time]_vars

\* a clear without identifier while an orphaned file lies in the directory
C10_Witness ==
    /\ ClearDone
    /\ pre.users[last_op.user] = None
    /\ ops = {}
    /\ \E i \in Ids : files[i].st # "absent"
    /\ pre.prev.name # "clear_conversation"

\* C11: when a step of an accepted request raises (image download, model call,
\* stream consumption), the module is disabled and the exception is re-raised;
\* afterwards every process_request is rejected with the "not initialized"
\* error and attempts no model call, and only an initialize that returns
\* normally enables the module again.
C11_ErrorDisablesUntilInitialize ==
    /\ [](pending => ~enabled)
    /\ [](ProcessRequestDone => (pending <=> result = "raised"))
    /\ [][(~enabled /\ enabled')
           => (pc = "idle" /\ last_op'.name = "initialize" /\ result' = "returned")]_vars
    /\ [][(pc = "idle" /\ ~enabled /\ pc' # "idle" /\ last_op'.name = "process_request")
           => /\ pc' = "done" /\ result' = "returned"
              /\ req'.error
              /\ req'.response = ResponseError(UserLang[req'.user])
              /\ "model_call" \notin ops'
              /\ ~enabled']_vars

\* the stream raised after a chunk had been relayed
C11_Witness ==
    /\ ProcessRequestDone
    /\ result = "raised"
    /\ pre.enabled /\ ~enabled
    /\ "model_call" \in ops
    /\ Len(relays) >= 1

InitializeDone == pc = "done" /\ last_op.name = "initialize"

\* C12: when initialize ends, enabled is true exactly when it returned
\* normally; a module disabled in the configuration or a failing setup step
\* makes it raise with enabled false; a normal return leaves both models
\* configured.
C12_EnabledIffInitialized ==
    InitializeDone =>
        /\ result \in {"returned", "raised"}
        /\ enabled <=> (result = "returned")
        /\ (result = "raised") <=> (ops # {})
        /\ ~config_enabled => result = "raised"
        /\ result = "returned" => (model /\ vision_model)

\* the client setup failed after both models had been built, on a module that
\* was enabled before the call
C12_Witness ==
    /\ InitializeDone
    /\ ops = {"client_error"}
    /\ pre.enabled /\ ~enabled
    /\ model /\ vision_model
    /\ result = "raised"

FinalRelays == {i \in DOMAIN relays : relays[i].end}

\* C13 (as stated): every request whose chunk loop has ended, by exhausting
\* the stream or by cancellation, relays exactly one final update (end = true),
\* whatever the persistence step after the loop does; a rejected request relays
\* no final update.
C13_FinalUpdateOnce ==
    /\ (ProcessRequestDone /\ "loop_ended" \in ops)
          => (Cardinality(FinalRelays) = 1 /\ relays[Len(relays)].end)
    /\ (ProcessRequestDone /\ req.error) => relays = << >>

\* C14 (as stated, its clause on the rate limiter): every request that passes
\* the enabled check updates the last-request timestamp (exactly once) before
\* it ends, because the rate limiter only delays a request and never makes it
\* fail.  (The clause on the order is not met either: PR_Download and PR_Load
\* stand between PR_Stamp and the model call.)
C14_StampedNeverFailedByLimiter ==
    /\ (ProcessRequestDone /\ Accepted) => "stamp" \in ops
    /\ pending => "stamp" \in ops

\* an accepted text request, running or just ended
TextRequest ==
    /\ last_op.name = "process_request" /\ pc # "idle"
    /\ Accepted /\ ~req.image_url

\* a text request that persisted its session and returned
TextPersisted ==
    /\ TextRequest /\ pc = "done" /\ result = "returned"
    /\ "save_conversation" \in ops

\* C15 (as stated): in a successfully completed text request every message
\* update, in-progress or final, is relayed and the session is persisted
\* while processing is still true, the clearing of the flag coming last.
C15_Original ==
    TextPersisted =>
        /\ \A i \in DOMAIN relays : relays[i].processing
        /\ "persist_busy" \in ops

\* C15 (amended): in a text request the order is enabled check, cooldown wait
\* and timestamp update, session load or start, model call with the
\* in-progress relays, persistence, clearing of processing, and last the final
\* update; processing is true at every in-progress relay and while the session
\* is persisted, and already false when the final update is relayed.
C15_LifecycleOrder ==
    TextRequest =>
        /\ "load_conversation" \in ops => "stamp" \in ops
        /\ "model_call" \in ops => "load_conversation" \in ops
        /\ relays # << >> => "model_call" \in ops
        /\ \A i \in DOMAIN relays :
              IF relays[i].end
              THEN i = Len(relays) /\ pc = "done" /\ ~relays[i].processing
              ELSE relays[i].processing
        /\ "save_conversation" \in ops
              => /\ "persist_busy" \in ops /\ "loop_ended" \in ops
                 /\ pc \in {"finally", "final_send", "done"}
        /\ pc \in {"cooldown", "sleep", "sleeping", "stamp", "load", "model_call",
                    "next", "check", "body", "post", "except", "finally"}
              => processing_flag /\ FinalRelays = {}
        /\ pc = "final_send" => ~processing_flag /\ FinalRelays = {}
        /\ TextPersisted
              => /\ {"stamp", "load_conversation", "model_call", "save_user"} \subseteq ops
                 /\ FinalRelays = {Len(relays)}
                 /\ ~processing_flag

\* a persisted text request with an in-progress relay and the final one
C15_Witness ==
    /\ TextPersisted
    /\ Len(relays) >= 2
    /\ relays[1].processing /\ ~relays[1].end
    /\ relays[Len(relays)].end /\ ~relays[Len(relays)].processing
    /\ "persist_busy" \in ops

\* C16: the flag is checked before the chunk is used.  Once a per-chunk check
\* has read cancel_requested true the loop is left for good: no further chunk
\* is fetched, the response text stays the text of the chunks before the one
\* being checked, and no in-progress update follows; every in-progress relay
\* belongs to a chunk whose own check read the flag false.
C16_CheckBeforeUse ==
    (last_op.name = "process_request" /\ pc # "idle") =>
        /\ "cancel_polled" \in ops
              => /\ broke
                 /\ pc \in {"post", "except", "finally", "final_send", "done"}
                 /\ req.response = ConcatText(response, idx - 1)
                 /\ \A i \in DOMAIN relays : ~relays[i].end => relays[i].chunk < idx
        /\ pc = "body" => ("cancel_polled" \notin ops /\ ~broke)
        /\ \A i \in DOMAIN relays :
              ~relays[i].end
                 => /\ relays[i].chunk \in 1..idx
                    /\ response[relays[i].chunk].has_text
                    /\ relays[i].text = ConcatText(response, relays[i].chunk)
                    /\ \A j \in DOMAIN relays :
                          (j < i) => (~relays[j].end /\ relays[j].chunk < relays[i].chunk)

\* the second chunk, carrying text, was fetched and dropped by its check after
\* the first one had been relayed
C16_Witness ==
    /\ ProcessRequestDone /\ result = "returned"
    /\ "cancel_polled" \in ops
    /\ idx = 2 /\ response[2].has_text
    /\ Len(relays) = 2 /\ relays[1].chunk = 1 /\ relays[2].end

\* C17: a failing transcript load, save or delete never raises out of
\* process_request or clear_conversation_for_user, never disables the module
\* and never sets the error flag.  A load with no identifier, with no file or
\* with an undeserializable file gives an empty prior transcript (the model is
\* called with the user turn alone); a failed save nulls the user's
\* identifier; a failed delete still nulls it.
C17_StoreFailuresNotFatal ==
    /\ (TextRequest /\ pc = "model_call")
          => /\ enabled /\ ~pending /\ ~req.error
             /\ (pre.users[req.user] = None \/ pre.files[pre.users[req.user]].st # "ok")
                   => conversation = <<ToJson("user", <<req.text>>)>>
    /\ (last_op.name = "process_request" /\ "save_failed" \in ops)
          => /\ enabled /\ ~pending /\ ~req.error
             /\ result # "raised"
             /\ pc \in {"finally", "final_send", "done"}
             /\ users[req.user] = None /\ saved[req.user] = None
    /\ ClearDone
          => /\ result = "returned"
             /\ enabled = pre.enabled
             /\ "remove_failed" \in ops => users[last_op.user] = None

\* a request has gone on to the model call with the user turn alone although
\* the user record named a file, which cannot be deserialized
C17_Witness ==
    /\ TextRequest /\ pc = "model_call"
    /\ pre.users[req.user] # None
    /\ pre.files[pre.users[req.user]] = Corrupt
    /\ conversation = <<ToJson("user", <<req.text>>)>>
    /\ enabled

\* C18: from a state where no user has an identifier, after any sequence of
\* process_request, clear and initialize calls every user record with a
\* non-null identifier refers to a conversation file that exists, and that
\* file holds the transcript last saved for the user: a non-null identifier
\* gets into a record only by a step whose save under that identifier
\* succeeded, and the file it refers to is then left as it is until the next
\* such save.
C18_IdRefersToSavedFile ==
    /\ [](\A u \in Users : users[u] # None
              => (files[users[u]].st = "ok" /\ saved[u] = users[u]))
    /\ [][\A u \in Users : users'[u] # None
              => \/ users'[u] = users[u] /\ files'[users'[u]] = files[users[u]]
                 \/ /\ pc = "post" /\ req.user = u
                    /\ "save_ok" \in ops'
                    /\ users'[u] = conversation_id
                    /\ files'[users'[u]] = FileOf(conversation')]_vars

\* a second successful save under the identifier the record already carried
C18_Witness ==
    /\ ProcessRequestDone /\ "save_ok" \in ops
    /\ pre.users[req.user] # None
    /\ users[req.user] = pre.users[req.user]
    /\ files[users[req.user]] = FileOf(conversation)
    /\ Len(conversation) = 4

\* C19 (as stated): every transcript process_request persists ends with a
\* model turn built from a stream that was consumed to its end; a stream the
\* cancellation check stopped early is never persisted, however the flag is
\* written from outside between the check that broke the loop and the
\* post-loop check.
C19_PersistedStreamsComplete ==
    (last_op.name = "process_request" /\ "save_conversation" \in ops)
        => /\ ~broke
           /\ idx = Len(response)
           /\ conversation[Len(conversation)] = ToJson("model", AggregatedParts(response))

\* the call began with cancel_requested true and the flag has not been
\* written before any of its reads since
StartedCancelled ==
    /\ last_op.name = "process_request" /\ pc # "idle" /\ Accepted
    /\ cancel_requested
    /\ cancel_set_at = [n |-> 0, unchecked |-> FALSE]

====
